---- MODULE Spec2Model ----
(***************************************************************************)
(* Box-premium aggregation (routers/caixas.py) and payment merging         *)
(* (routers/pagamento.py) of the ENTREGA backend.                          *)
(*                                                                         *)
(* Python dicts are functions whose DOMAIN is the set of keys present.     *)
(* DataFrames are sequences of rows; a row is a record.  None / NaN is NA  *)
(* in numeric columns and Null in text columns.                            *)
(***************************************************************************)
EXTENDS Integers, Sequences, FiniteSets, TLC

VARIABLES pc,
          dias_antiguidade, metas_colaborador, valor,
          df_viagens, df_cadastro, df_caixas, metas, resultado,
          m_kpi, a_kpi, m_cx, a_cx, df_m, df_a,
          endpoint, current_user, erros, invoked, response

vars == <<pc, dias_antiguidade, metas_colaborador, valor,
          df_viagens, df_cadastro, df_caixas, metas, resultado,
          m_kpi, a_kpi, m_cx, a_cx, df_m, df_a,
          endpoint, current_user, erros, invoked, response>>

\* A variable a specification does not use.
Unset == "unset"

\* None / NaN in a numeric position.
NA == -1

\* None / NaN in a text position.
Null == "<null>"

\* dict.get(k, default)
Get(d, k, default) == IF k \in DOMAIN d THEN d[k] ELSE default

(***************************************************************************)
(* _get_valor_por_caixa                                                    *)
(***************************************************************************)
DefaultDiasN3 == 1825
DefaultDiasN2 == 730
DefaultDiasN1 == 365

\* dias > limiar raises TypeError when the stored threshold is not a number;
\* the bare except turns that into 0.0.
GetValorPorCaixaGe(dias, m) ==
    LET n3 == Get(m, "meta_cx_dias_n3", DefaultDiasN3)
        n2 == Get(m, "meta_cx_dias_n2", DefaultDiasN2)
        n1 == Get(m, "meta_cx_dias_n1", DefaultDiasN1)
    IN  IF n3 = NA THEN 0
        ELSE IF dias >= n3 THEN Get(m, "meta_cx_valor_n4", 0)
        ELSE IF n2 = NA THEN 0
        ELSE IF dias >= n2 THEN Get(m, "meta_cx_valor_n3", 0)
        ELSE IF n1 = NA THEN 0
        ELSE IF dias >= n1 THEN Get(m, "meta_cx_valor_n2", 0)
        ELSE Get(m, "meta_cx_valor_n1", 0)

GetValorPorCaixa(dias, m) ==
    LET n3 == Get(m, "meta_cx_dias_n3", DefaultDiasN3)
        n2 == Get(m, "meta_cx_dias_n2", DefaultDiasN2)
        n1 == Get(m, "meta_cx_dias_n1", DefaultDiasN1)
    IN  IF n3 = NA THEN 0
        ELSE IF dias > n3 THEN Get(m, "meta_cx_valor_n4", 0)
        ELSE IF n2 = NA THEN 0
        ELSE IF dias > n2 THEN Get(m, "meta_cx_valor_n3", 0)
        ELSE IF n1 = NA THEN 0
        ELSE IF dias > n1 THEN Get(m, "meta_cx_valor_n2", 0)
        ELSE Get(m, "meta_cx_valor_n1", 0)

\* ---- inputs of the tier specification ----
MetaKeys == {"meta_cx_dias_n1", "meta_cx_dias_n2", "meta_cx_dias_n3",
             "meta_cx_valor_n1", "meta_cx_valor_n2", "meta_cx_valor_n3",
             "meta_cx_valor_n4"}

LimiarKeys == {"meta_cx_dias_n1", "meta_cx_dias_n2", "meta_cx_dias_n3"}

MetaVals(k) ==
    CASE k = "meta_cx_dias_n1" -> {100, NA}
      [] k = "meta_cx_dias_n2" -> {400}
      [] k = "meta_cx_dias_n3" -> {1000, NA}
      [] k = "meta_cx_valor_n1" -> {10}
      [] k = "meta_cx_valor_n2" -> {15}
      [] k = "meta_cx_valor_n3" -> {20}
      [] k = "meta_cx_valor_n4" -> {25}

MetaDicts ==
    UNION { { f \in [S -> {NA, 10, 15, 20, 25, 100, 400, 1000}] :
                \A k \in S : f[k] \in MetaVals(k) } : S \in SUBSET MetaKeys }

DiasSet == {0, 100, 101, 365, 366, 400, 401, 730, 731, 1000, 1001, 1825, 1826}

InitTier ==
    /\ pc = "tier"
    /\ dias_antiguidade \in DiasSet
    /\ metas_colaborador \in MetaDicts
    /\ valor = NA
    /\ df_viagens = Unset /\ df_cadastro = Unset /\ df_caixas = Unset
    /\ metas = Unset /\ resultado = Unset
    /\ m_kpi = Unset /\ a_kpi = Unset /\ m_cx = Unset /\ a_cx = Unset
    /\ df_m = Unset /\ df_a = Unset
    /\ endpoint = Unset /\ current_user = Unset /\ erros = Unset
    /\ invoked = Unset /\ response = Unset

CallGetValorPorCaixa ==
    /\ pc = "tier"
    /\ valor' = GetValorPorCaixa(dias_antiguidade, metas_colaborador)
    /\ pc' = "tier_done"
    /\ UNCHANGED <<dias_antiguidade, metas_colaborador,
                   df_viagens, df_cadastro, df_caixas, metas, resultado,
                   m_kpi, a_kpi, m_cx, a_cx, df_m, df_a,
                   endpoint, current_user, erros, invoked, response>>

NextTier == CallGetValorPorCaixa

SpecTier == InitTier /\ [][NextTier]_vars

\* ---- C5 ----
\* The threshold the code compares against: the table's value, or the default.
Limiar(m, k, d) == IF k \in DOMAIN m THEN m[k] ELSE d

LimiaresNumericos(m) == \A k \in LimiarKeys \cap DOMAIN m : m[k] # NA

Taxa(m, k) == IF k \in DOMAIN m THEN m[k] ELSE 0

\* C5: for every tenure value and every rate table whose thresholds are
\* numbers, the rate returned is rate_tier_4 if tenure > threshold_3, else
\* rate_tier_3 if tenure > threshold_2, else rate_tier_2 if tenure >
\* threshold_1, else rate_tier_1 (strict comparisons, a missing rate key
\* giving 0); with the default thresholds, tenure exactly 365, 730 or 1825
\* gets the lower tier's rate.
C5_TierSelection ==
    (pc = "tier_done" /\ LimiaresNumericos(metas_colaborador)) =>
        LET m == metas_colaborador
            d == dias_antiguidade
            t3 == Limiar(m, "meta_cx_dias_n3", 1825)
            t2 == Limiar(m, "meta_cx_dias_n2", 730)
            t1 == Limiar(m, "meta_cx_dias_n1", 365)
            tiers == { i \in 1..4 :
                         \/ i = 4 /\ d > t3
                         \/ i = 3 /\ ~(d > t3) /\ d > t2
                         \/ i = 2 /\ ~(d > t3) /\ ~(d > t2) /\ d > t1
                         \/ i = 1 /\ ~(d > t3) /\ ~(d > t2) /\ ~(d > t1) }
        IN  /\ Cardinality(tiers) = 1
            /\ 4 \in tiers => valor = Taxa(m, "meta_cx_valor_n4")
            /\ 3 \in tiers => valor = Taxa(m, "meta_cx_valor_n3")
            /\ 2 \in tiers => valor = Taxa(m, "meta_cx_valor_n2")
            /\ 1 \in tiers => valor = Taxa(m, "meta_cx_valor_n1")
            /\ (LimiarKeys \cap DOMAIN m = {}) =>
                  /\ d = 365 => valor = Taxa(m, "meta_cx_valor_n1")
                  /\ d = 730 => valor = Taxa(m, "meta_cx_valor_n2")
                  /\ d = 1825 => valor = Taxa(m, "meta_cx_valor_n3")

\* A boundary tenure under the default thresholds, with the lower tier's rate
\* present and the upper tier's rate present and different.
C5_Witness ==
    /\ pc = "tier_done"
    /\ dias_antiguidade = 730
    /\ LimiarKeys \cap DOMAIN metas_colaborador = {}
    /\ {"meta_cx_valor_n2", "meta_cx_valor_n3"} \subseteq DOMAIN metas_colaborador
    /\ valor = 15

(***************************************************************************)
(* processar_caixas_sincrono                                               *)
(***************************************************************************)
\* What a fetch returns: a DataFrame of rows, or None.
DF(rows) == [none |-> FALSE, rows |-> rows]

None == [none |-> TRUE, rows |-> <<>>]

\* pd.to_numeric(..., errors='coerce').fillna(0).astype(int): a code that is
\* not a number (NA) becomes 0.
ToIntCoerce(c) == IF c = NA THEN 0 ELSE c

\* str(x).strip() of a registry text cell.
StrStrip(x) ==
    CASE x = Null -> "None"
      [] x = " ANA " -> "ANA"
      [] OTHER -> x

\* str(MAPA): a trip identifier is a number or a text; the lookup key is
\* always the text.
Str(id) == [tipo |-> "str", n |-> id.n]

RECURSIVE Pick(_, _, _)
Pick(s, keep, i) ==
    IF i > Len(s) THEN <<>>
    ELSE (IF i \in keep THEN <<s[i]>> ELSE <<>>) \o Pick(s, keep, i + 1)

\* DataFrame.drop_duplicates(subset=[col]): the first row of each value stays.
DropDuplicates(df, col) ==
    Pick(df, {i \in 1..Len(df) : \A j \in 1..(i - 1) : df[j][col] # df[i][col]}, 1)

\* Lines 34-43 (classe "M") and 47-56 (classe "J"): the registry maps.
\* Result: [antiguidade |-> cod -> dias, info |-> cod -> [nome, cpf]].
RECURSIVE CadastroLoop(_, _, _, _, _, _)
CadastroLoop(rows, i, cCod, cData, cNome, cCpf) ==
    IF i = 0 THEN [antiguidade |-> <<>>, info |-> <<>>]
    ELSE LET prev == CadastroLoop(rows, i - 1, cCod, cData, cNome, cCpf)
             row  == rows[i]
             cod  == ToIntCoerce(row[cCod])
             dias == IF row[cData] # NA THEN row[cData] ELSE 0
         IN  IF cod = 0 THEN prev
             ELSE [antiguidade |-> (cod :> dias) @@ prev.antiguidade,
                   info |-> (cod :> [nome |-> StrStrip(row[cNome]),
                                     cpf  |-> StrStrip(row[cCpf])]) @@ prev.info]

CadastroMaps(df, cCod, cData, cNome, cCpf) ==
    IF df.none THEN [antiguidade |-> <<>>, info |-> <<>>]
    ELSE LET notna == SelectSeq(df.rows, LAMBDA r : r[cCod] # NA)
             dedup == DropDuplicates(notna, cCod)
         IN  CadastroLoop(dedup, Len(dedup), cCod, cData, cNome, cCpf)

\* Lines 58-61: mapa -> caixas, the first row of each mapa.
MapaCaixasTotal(df) ==
    IF df.none \/ df.rows = <<>> THEN <<>>
    ELSE LET limpo == DropDuplicates(df.rows, "mapa")
         IN  [k \in {limpo[i].mapa : i \in 1..Len(limpo)} |->
                 (CHOOSE i \in 1..Len(limpo) : limpo[i].mapa = k) ]

\* float(mapa_caixas_total.get(str(viagem.get('MAPA', '')), 0))
CaixasDoMapa(viagem, df) ==
    LET idx == MapaCaixasTotal(df)
        k   == Str(viagem.MAPA)
    IN  IF k \in DOMAIN idx
        THEN (DropDuplicates(df.rows, "mapa"))[idx[k]].caixas
        ELSE 0

\* d[cod] = d.get(cod, 0) + x on a dict kept in insertion order.
Acumular(acc, cod, x) ==
    IF \E i \in 1..Len(acc) : acc[i].cod = cod
    THEN [i \in 1..Len(acc) |->
            IF acc[i].cod = cod THEN [cod |-> cod, total |-> acc[i].total + x]
            ELSE acc[i]]
    ELSE Append(acc, [cod |-> cod, total |-> x])

ColunasAjudantes == <<"CODJ_1", "CODJ_2">>

\* Lines 77-82: the helper columns of one trip.
RECURSIVE AcumularAjudantes(_, _, _, _, _)
AcumularAjudantes(acc, viagem, n, caixas, infoJ) ==
    IF n = 0 THEN acc
    ELSE LET prev == AcumularAjudantes(acc, viagem, n - 1, caixas, infoJ)
             cod  == viagem[ColunasAjudantes[n]]
         IN  IF cod # 0 /\ cod # NA /\ cod \in DOMAIN infoJ
             THEN Acumular(prev, cod, caixas)
             ELSE prev

\* The same loop body with the driver code read before the zero-box test.
ProcessarViagemCodFirst(st, viagem, caixas, infoM, infoJ) ==
    IF st.raised THEN st
    ELSE IF viagem.COD = NA
         THEN [raised |-> TRUE, motoristas |-> st.motoristas,
               ajudantes |-> st.ajudantes]
    ELSE IF caixas = 0 THEN st
    ELSE [raised |-> FALSE,
          motoristas |-> IF viagem.COD \in DOMAIN infoM
                         THEN Acumular(st.motoristas, viagem.COD, caixas)
                         ELSE st.motoristas,
          ajudantes |-> AcumularAjudantes(st.ajudantes, viagem,
                                          Len(ColunasAjudantes), caixas, infoJ)]

\* Lines 68-82: one trip.  int(viagem.get('COD', 0)) raises on a value that
\* is not a number.
ProcessarViagem(st, viagem, caixas, infoM, infoJ) ==
    IF st.raised THEN st
    ELSE IF caixas = 0 THEN st
    ELSE IF viagem.COD = NA
         THEN [raised |-> TRUE, motoristas |-> st.motoristas,
               ajudantes |-> st.ajudantes]
    ELSE [raised |-> FALSE,
          motoristas |-> IF viagem.COD \in DOMAIN infoM
                         THEN Acumular(st.motoristas, viagem.COD, caixas)
                         ELSE st.motoristas,
          ajudantes |-> AcumularAjudantes(st.ajudantes, viagem,
                                          Len(ColunasAjudantes), caixas, infoJ)]

RECURSIVE ViagensLoop(_, _, _, _, _)
ViagensLoop(viagens, i, dfCaixas, infoM, infoJ) ==
    IF i = 0 THEN [raised |-> FALSE, motoristas |-> <<>>, ajudantes |-> <<>>]
    ELSE ProcessarViagem(ViagensLoop(viagens, i - 1, dfCaixas, infoM, infoJ),
                         viagens[i], CaixasDoMapa(viagens[i], dfCaixas),
                         infoM, infoJ)

\* Python's order on the names that occur.
NomeRank(n) ==
    CASE n = "ANA" -> 1 [] n = "BIA" -> 2 [] n = "CAIO" -> 3
      [] n = "COD" -> 4 [] n = "None" -> 5 [] OTHER -> 6

\* sorted(..., key=lambda x: x['nome']): stable.
RECURSIVE SortedByNome(_)
SortedByNome(s) ==
    IF s = <<>> THEN <<>>
    ELSE LET rest == SortedByNome(SubSeq(s, 1, Len(s) - 1))
             x    == s[Len(s)]
             k    == Cardinality({i \in 1..Len(rest) :
                                    NomeRank(rest[i].nome) <= NomeRank(x.nome)})
         IN  SubSeq(rest, 1, k) \o <<x>> \o SubSeq(rest, k + 1, Len(rest))

\* Lines 84-106: the records of one class.
RECURSIVE Resultado(_, _, _, _)
Resultado(acc, i, maps, metasClasse) ==
    IF i = 0 THEN <<>>
    ELSE LET prev == Resultado(acc, i - 1, maps, metasClasse)
             cod  == acc[i].cod
             total == acc[i].total
             info == Get(maps.info, cod, [cpf |-> "N/A", nome |-> "COD"])
             dias == Get(maps.antiguidade, cod, 0)
             v    == GetValorPorCaixa(dias, metasClasse)
         IN  IF total = 0 THEN prev
             ELSE Append(prev, [cpf |-> info.cpf, cod |-> cod, nome |-> info.nome,
                                total_caixas |-> total, valor_por_caixa |-> v,
                                total_premio |-> total * v,
                                antiguidade_dias |-> dias])

\* The whole function.  df_viagens.columns on None raises (line 65).
ProcessarCaixasSincrono(dfViagens, dfCadastro, dfCaixas, mt) ==
    LET metas_motorista == Get(mt, "motorista", <<>>)
        metas_ajudante  == Get(mt, "ajudante", <<>>)
        mapsM == CadastroMaps(dfCadastro, "Codigo_M", "Data_M", "Nome_M", "CPF_M")
        mapsJ == CadastroMaps(dfCadastro, "Codigo_J", "Data_J", "Nome_J", "CPF_J")
    IN  IF dfViagens.none
        THEN [raised |-> TRUE, motoristas |-> <<>>, ajudantes |-> <<>>]
        ELSE LET st == ViagensLoop(dfViagens.rows, Len(dfViagens.rows), dfCaixas,
                                   mapsM.info, mapsJ.info)
             IN  IF st.raised
                 THEN [raised |-> TRUE, motoristas |-> <<>>, ajudantes |-> <<>>]
                 ELSE [raised |-> FALSE,
                       motoristas |-> SortedByNome(
                           Resultado(st.motoristas, Len(st.motoristas),
                                     mapsM, metas_motorista)),
                       ajudantes |-> SortedByNome(
                           Resultado(st.ajudantes, Len(st.ajudantes),
                                     mapsJ, metas_ajudante))]

\* ---- inputs of the aggregator specification ----
MaxViagens == 2

MapaInt(n) == [tipo |-> "int", n |-> n]
MapaStr(n) == [tipo |-> "str", n |-> n]

ViagemRows ==
    [MAPA : {MapaInt(1), MapaInt(2)}, COD : {NA, 7, 8, 9},
     CODJ_1 : {NA, 5}, CODJ_2 : {0, 5}]

SeqsUpTo(S, n) == UNION {[1..k -> S] : k \in 0..n}

CadRow(cm, dm, nm, pm, cj, dj, nj, pj) ==
    [Codigo_M |-> cm, Data_M |-> dm, Nome_M |-> nm, CPF_M |-> pm,
     Codigo_J |-> cj, Data_J |-> dj, Nome_J |-> nj, CPF_J |-> pj]

CadAna == CadRow(7, 400, " ANA ", "123.456.789-00", 5, 800, "CAIO", "222.222.222-22")
CadBia == CadRow(8, NA, "BIA", "333.333.333-33", NA, NA, Null, Null)
CadAnaDup == CadRow(7, 2000, "BIA", "999.999.999-99", 5, NA, Null, Null)

CadastroOpts == {DF(<<CadAna, CadBia>>), DF(<<CadAna, CadAnaDup, CadBia>>)}

CxRow(m, c) == [mapa |-> m, caixas |-> c]

CaixasOpts ==
    {None,
     DF(<<CxRow(MapaStr(1), 50), CxRow(MapaStr(2), 0)>>),
     DF(<<CxRow(MapaStr(1), 50), CxRow(MapaStr(1), 70), CxRow(MapaStr(2), 30)>>),
     DF(<<CxRow(MapaInt(1), 50), CxRow(MapaInt(2), 30)>>)}

MetasCheias ==
    [k \in MetaKeys |->
        CASE k = "meta_cx_dias_n1" -> 365
          [] k = "meta_cx_dias_n2" -> 730
          [] k = "meta_cx_dias_n3" -> 1825
          [] k = "meta_cx_valor_n1" -> 10
          [] k = "meta_cx_valor_n2" -> 15
          [] k = "meta_cx_valor_n3" -> 20
          [] k = "meta_cx_valor_n4" -> 25]

MetasOpts ==
    {[motorista |-> MetasCheias, ajudante |-> MetasCheias],
     [motorista |-> [k \in {"meta_cx_dias_n1"} |-> 100]]}

InitCaixas ==
    /\ pc = "caixas"
    /\ df_viagens \in {DF(s) : s \in SeqsUpTo(ViagemRows, MaxViagens)}
    /\ df_cadastro \in CadastroOpts
    /\ df_caixas \in CaixasOpts
    /\ metas \in MetasOpts
    /\ resultado = Unset
    /\ dias_antiguidade = Unset /\ metas_colaborador = Unset /\ valor = Unset
    /\ m_kpi = Unset /\ a_kpi = Unset /\ m_cx = Unset /\ a_cx = Unset
    /\ df_m = Unset /\ df_a = Unset
    /\ endpoint = Unset /\ current_user = Unset /\ erros = Unset
    /\ invoked = Unset /\ response = Unset

CallProcessarCaixas ==
    /\ pc = "caixas"
    /\ resultado' = ProcessarCaixasSincrono(df_viagens, df_cadastro, df_caixas, metas)
    /\ pc' = "caixas_done"
    /\ UNCHANGED <<dias_antiguidade, metas_colaborador, valor,
                   df_viagens, df_cadastro, df_caixas, metas,
                   m_kpi, a_kpi, m_cx, a_cx, df_m, df_a,
                   endpoint, current_user, erros, invoked, response>>

NextCaixas == CallProcessarCaixas

SpecCaixas == InitCaixas /\ [][NextCaixas]_vars

\* ---- what the claims about the aggregator speak of ----
RECURSIVE SumSeq(_)
SumSeq(s) == IF s = <<>> THEN 0 ELSE s[1] + SumSeq(Tail(s))

\* The box count a trip resolves to.
Resolvido(v) == CaixasDoMapa(v, df_caixas)

\* The trips of a worker: the rows naming the code as driver (classe "M"), or
\* in some helper column (classe "J").
ViagensDe(classe, c) ==
    SelectSeq(df_viagens.rows,
              LAMBDA v : IF classe = "M" THEN v.COD = c
                         ELSE \E n \in 1..Len(ColunasAjudantes) :
                                  v[ColunasAjudantes[n]] = c)

TotalDe(classe, c) ==
    LET vs == ViagensDe(classe, c)
    IN  SumSeq([i \in 1..Len(vs) |-> Resolvido(vs[i])])

\* The registry row that counts for a code: the first one carrying it.
CadastroDe(classe, c) ==
    LET col == IF classe = "M" THEN "Codigo_M" ELSE "Codigo_J"
        i   == CHOOSE i \in 1..Len(df_cadastro.rows) :
                  /\ df_cadastro.rows[i][col] = c
                  /\ \A j \in 1..(i - 1) : df_cadastro.rows[j][col] # c
    IN  df_cadastro.rows[i]

Registrados(classe) ==
    LET col == IF classe = "M" THEN "Codigo_M" ELSE "Codigo_J"
    IN  {df_cadastro.rows[i][col] : i \in 1..Len(df_cadastro.rows)} \ {NA, 0}

AntiguidadeDe(classe, c) ==
    LET d == CadastroDe(classe, c)[IF classe = "M" THEN "Data_M" ELSE "Data_J"]
    IN  IF d = NA THEN 0 ELSE d

MetasDe(classe) ==
    LET k == IF classe = "M" THEN "motorista" ELSE "ajudante"
    IN  IF k \in DOMAIN metas THEN metas[k] ELSE <<>>

SaidaDe(classe) ==
    IF classe = "M" THEN resultado.motoristas ELSE resultado.ajudantes

\* C6: every registered worker whose trips' resolved box counts sum to a
\* nonzero total gets exactly one record in the worker's class, with
\* total_caixas that sum, valor_por_caixa the tier rate of the worker's tenure
\* and total_premio their product.
C6_OneRecordPerWorker ==
    pc = "caixas_done" =>
        \A classe \in {"M", "J"} : \A c \in Registrados(classe) :
            TotalDe(classe, c) # 0 =>
                LET out == SaidaDe(classe)
                    idx == {i \in 1..Len(out) : out[i].cod = c}
                    taxa == GetValorPorCaixa(AntiguidadeDe(classe, c), MetasDe(classe))
                IN  /\ Cardinality(idx) = 1
                    /\ \A i \in idx :
                          /\ out[i].total_caixas = TotalDe(classe, c)
                          /\ out[i].valor_por_caixa = taxa
                          /\ out[i].total_premio = TotalDe(classe, c) * taxa

\* C8: the aggregator completes and returns a result for every trip feed,
\* whatever the driver and helper codes, registry dates and rate table.
C8_NeverRaises == pc = "caixas_done" => ~resultado.raised

\* C9: the trips whose box count resolves to 0 removed, the aggregator gives
\* the same outcome (the same driver and helper sequences, or the same
\* failure).
C9_ZeroBoxTripsIrrelevant ==
    pc = "caixas_done" =>
        resultado = ProcessarCaixasSincrono(
                        DF(SelectSeq(df_viagens.rows, LAMBDA v : Resolvido(v) # 0)),
                        df_cadastro, df_caixas, metas)

\* A feed with a zero-box trip and a trip with boxes, aggregated into records.
C9_Witness ==
    /\ pc = "caixas_done"
    /\ \E i \in 1..Len(df_viagens.rows) : Resolvido(df_viagens.rows[i]) = 0
    /\ \E i \in 1..Len(df_viagens.rows) : Resolvido(df_viagens.rows[i]) # 0
    /\ ~resultado.raised
    /\ resultado.motoristas # <<>>
    /\ resultado.ajudantes # <<>>

(***************************************************************************)
(* _merge_resultados                                                       *)
(*                                                                         *)
(* A DataFrame here is [cols |-> set of column names, rows |-> sequence of *)
(* functions from cols].                                                   *)
(***************************************************************************)
TextCols == {"nome", "cpf", "nome_kpi", "cpf_kpi", "nome_cx", "cpf_cx"}

\* The NaN a missing cell holds.
NaOf(col) == IF col \in TextCols THEN Null ELSE NA

\* Lines 66-84: DataFrame(lista).reindex(columns=cols).rename(total_premio ->
\* premio), or the empty DataFrame(columns=cols), which is not renamed.
ToFrame(lista, premio) ==
    IF lista # <<>>
    THEN [cols |-> {"cod", "nome", "cpf", premio},
          rows |-> [i \in 1..Len(lista) |->
                      [c \in {"cod", "nome", "cpf", premio} |->
                          IF c = premio THEN lista[i].total_premio ELSE lista[i][c]]]]
    ELSE [cols |-> {"cod", "nome", "cpf", "total_premio"}, rows |-> <<>>]

\* df[col] = df[col].fillna(v), when the column is there.
FillNa(df, col, v) ==
    IF col \in df.cols
    THEN [cols |-> df.cols,
          rows |-> [i \in 1..Len(df.rows) |->
                      [c \in df.cols |->
                          IF c = col /\ df.rows[i][c] = NaOf(col)
                          THEN v ELSE df.rows[i][c]]]]
    ELSE df

\* Lines 90-93: the cod column made integer, on a frame that has rows.
CoerceCod(df) ==
    IF df.rows = <<>> THEN df
    ELSE [cols |-> df.cols,
          rows |-> [i \in 1..Len(df.rows) |->
                      [c \in df.cols |->
                          IF c = "cod" THEN ToIntCoerce(df.rows[i][c])
                          ELSE df.rows[i][c]]]]

SufKpi(c) ==
    CASE c = "nome" -> "nome_kpi" [] c = "cpf" -> "cpf_kpi"
      [] c = "total_premio" -> "total_premio_kpi"

SufCx(c) ==
    CASE c = "nome" -> "nome_cx" [] c = "cpf" -> "cpf_cx"
      [] c = "total_premio" -> "total_premio_cx"

RECURSIVE SortedCods(_)
SortedCods(S) ==
    IF S = {} THEN <<>>
    ELSE LET m == CHOOSE x \in S : \A y \in S : x <= y
         IN  <<m>> \o SortedCods(S \ {m})

RECURSIVE Concat(_)
Concat(ss) == IF ss = <<>> THEN <<>> ELSE ss[1] \o Concat(Tail(ss))

\* pd.merge(L, R, on='cod', how='outer', suffixes=('_kpi', '_cx')): the keys of
\* both sides in ascending order, every pair of rows sharing a key, and NaN for
\* the side that lacks the key.
MergeOuter(L, R) ==
    LET comuns == (L.cols \cap R.cols) \ {"cod"}
        nl(c) == IF c \in comuns THEN SufKpi(c) ELSE c
        nr(c) == IF c \in comuns THEN SufCx(c) ELSE c
        lc == L.cols \ {"cod"}
        rc == R.cols \ {"cod"}
        cols == {"cod"} \cup {nl(c) : c \in lc} \cup {nr(c) : c \in rc}
        src(col) == IF \E c \in lc : nl(c) = col
                    THEN <<"L", CHOOSE c \in lc : nl(c) = col>>
                    ELSE <<"R", CHOOSE c \in rc : nr(c) = col>>
        Linha(k, l, r) ==
            [col \in cols |->
                IF col = "cod" THEN k
                ELSE IF src(col)[1] = "L"
                     THEN (IF l = <<>> THEN NaOf(col) ELSE l[1][src(col)[2]])
                     ELSE (IF r = <<>> THEN NaOf(col) ELSE r[1][src(col)[2]])]
        De(k) ==
            LET Lk == Pick(L.rows, {i \in 1..Len(L.rows) : L.rows[i].cod = k}, 1)
                Rk == Pick(R.rows, {i \in 1..Len(R.rows) : R.rows[i].cod = k}, 1)
            IN  IF Lk = <<>> THEN [j \in 1..Len(Rk) |-> Linha(k, <<>>, <<Rk[j]>>)]
                ELSE IF Rk = <<>> THEN [i \in 1..Len(Lk) |-> Linha(k, <<Lk[i]>>, <<>>)]
                ELSE [n \in 1..(Len(Lk) * Len(Rk)) |->
                        Linha(k, <<Lk[((n - 1) \div Len(Rk)) + 1]>>,
                                 <<Rk[((n - 1) % Len(Rk)) + 1]>>)]
        ks == SortedCods({L.rows[i].cod : i \in 1..Len(L.rows)}
                         \cup {R.rows[i].cod : i \in 1..Len(R.rows)})
    IN  [cols |-> cols, rows |-> Concat([n \in 1..Len(ks) |-> De(ks[n])])]

\* df[col] = 0 when the column is not there (lines 101-102).
AddColIfMissing(df, col) ==
    IF col \in df.cols THEN df
    ELSE [cols |-> df.cols \cup {col},
          rows |-> [i \in 1..Len(df.rows) |->
                      [c \in df.cols \cup {col} |->
                          IF c = col THEN 0 ELSE df.rows[i][c]]]]

\* The box side preferred, the KPI side as the fallback.
ConsolidarCx(kpiVal, cxVal) == IF cxVal # Null THEN cxVal ELSE kpiVal

\* Lines 110-111: row.get(x_kpi) if pd.notna(row.get(x_kpi)) else row.get(x_cx, '')
Consolidar(kpiVal, cxVal) == IF kpiVal # Null THEN kpiVal ELSE cxVal

\* Line 114: the column names with '_kpi' or '_cx' in them.
ColsToDrop(cols) ==
    cols \cap {"nome_kpi", "cpf_kpi", "premio_kpi", "total_premio_kpi",
               "nome_cx", "cpf_cx", "total_premio_cx"}

\* Lines 100-117: the loop body, on one merged frame.
PosMerge(df0) ==
    LET df1 == AddColIfMissing(AddColIfMissing(df0, "premio_kpi"), "premio_caixas")
        df2 == FillNa(FillNa(df1, "premio_kpi", 0), "premio_caixas", 0)
        cols3 == df2.cols \cup {"total_a_pagar", "nome", "cpf"}
        Linha3(r) ==
            [c \in cols3 |->
                CASE c = "total_a_pagar" -> r.premio_kpi + r.premio_caixas
                  [] c = "nome" -> Consolidar(r.nome_kpi, r.nome_cx)
                  [] c = "cpf" -> Consolidar(r.cpf_kpi, r.cpf_cx)
                  [] OTHER -> r[c]]
        cols4 == cols3 \ ColsToDrop(cols3)
        Linha4(r) ==
            [c \in cols4 |->
                LET v == Linha3(r)[c] IN IF v = NaOf(c) THEN "" ELSE v]
    IN  [cols |-> cols4,
         rows |-> [i \in 1..Len(df2.rows) |-> Linha4(df2.rows[i])]]

\* The whole function: <<df_m, df_a>>.
MergeResultados(mKpi, aKpi, mCx, aCx) ==
    LET df_m_kpi == CoerceCod(FillNa(ToFrame(mKpi, "premio_kpi"), "premio_kpi", 0))
        df_m_cx  == CoerceCod(FillNa(ToFrame(mCx, "premio_caixas"), "premio_caixas", 0))
        df_a_kpi == CoerceCod(ToFrame(aKpi, "premio_kpi"))
        df_a_cx  == CoerceCod(ToFrame(aCx, "premio_caixas"))
    IN  <<PosMerge(MergeOuter(df_m_kpi, df_m_cx)),
          PosMerge(MergeOuter(df_a_kpi, df_a_cx))>>

\* ---- inputs of the merge specification ----
MaxRegistros == 2

Rec(cod, nome, cpf, premio) ==
    [cod |-> cod, nome |-> nome, cpf |-> cpf, total_premio |-> premio]

\* What processar_caixas_sincrono emits.
RecCx(cod, nome, cpf, total, v) ==
    [cpf |-> cpf, cod |-> cod, nome |-> nome, total_caixas |-> total,
     valor_por_caixa |-> v, total_premio |-> total * v, antiguidade_dias |-> 400]

KpiRecsM ==
    {Rec(c, n, p, 200) : c \in {7, 8}, n \in {"ANA K", Null},
                         p \in {"123.456.789-00", Null}}
    \cup {Rec(7, "ANA K", "123.456.789-00", NA), Rec(NA, "ZE", "000", 50)}

CxRecsM == {RecCx(7, "ANA", "12345678900", 50, 15),
            RecCx(8, "BIA", "333.333.333-33", 30, 10)}

KpiRecsA == {Rec(5, Null, "222.222.222-22", NA)}

CxRecsA == {RecCx(5, "CAIO", "222.222.222-22", 50, 20)}

InitMerge ==
    /\ pc = "merge"
    /\ m_kpi \in SeqsUpTo(KpiRecsM, MaxRegistros)
    /\ m_cx \in SeqsUpTo(CxRecsM, MaxRegistros)
    /\ a_kpi \in SeqsUpTo(KpiRecsA, MaxRegistros)
    /\ a_cx \in SeqsUpTo(CxRecsA, MaxRegistros)
    /\ df_m = Unset /\ df_a = Unset
    /\ dias_antiguidade = Unset /\ metas_colaborador = Unset /\ valor = Unset
    /\ df_viagens = Unset /\ df_cadastro = Unset /\ df_caixas = Unset
    /\ metas = Unset /\ resultado = Unset
    /\ endpoint = Unset /\ current_user = Unset /\ erros = Unset
    /\ invoked = Unset /\ response = Unset

CallMergeResultados ==
    /\ pc = "merge"
    /\ \E dfs \in {MergeResultados(m_kpi, a_kpi, m_cx, a_cx)} :
          df_m' = dfs[1] /\ df_a' = dfs[2]
    /\ pc' = "merge_done"
    /\ UNCHANGED <<dias_antiguidade, metas_colaborador, valor,
                   df_viagens, df_cadastro, df_caixas, metas, resultado,
                   m_kpi, a_kpi, m_cx, a_cx,
                   endpoint, current_user, erros, invoked, response>>

NextMerge == CallMergeResultados

SpecMerge == InitMerge /\ [][NextMerge]_vars

\* ---- what the claims about the merge speak of ----
Merged(classe) == IF classe = "M" THEN df_m ELSE df_a

KpiSide(classe) == IF classe = "M" THEN m_kpi ELSE a_kpi

CxSide(classe) == IF classe = "M" THEN m_cx ELSE a_cx

\* A worker code as the merge reads it: an integer, 0 when it is not one.
CodOf(r) == IF r.cod = NA THEN 0 ELSE r.cod

CodsOf(lista) == {CodOf(lista[i]) : i \in 1..Len(lista)}

RecsOf(lista, k) == {lista[i] : i \in {j \in 1..Len(lista) : CodOf(lista[j]) = k}}

\* C1: every merged row carries premio_kpi, premio_caixas and total_a_pagar,
\* total_a_pagar being their sum; a driver 7 with KPI premium 200 and no box
\* record gives a row with premio_kpi 200, premio_caixas 0, total_a_pagar 200.
C1_TotalIsSum ==
    pc = "merge_done" =>
        /\ \A classe \in {"M", "J"} : \A i \in 1..Len(Merged(classe).rows) :
              LET row == Merged(classe).rows[i]
              IN  /\ {"premio_kpi", "premio_caixas", "total_a_pagar"} \subseteq DOMAIN row
                  /\ row.total_a_pagar = row.premio_kpi + row.premio_caixas
        /\ (Len(m_kpi) = 1 /\ m_kpi[1].cod = 7 /\ m_kpi[1].total_premio = 200
            /\ m_cx = <<>>) =>
              /\ Len(df_m.rows) = 1
              /\ {"premio_kpi", "premio_caixas", "total_a_pagar"}
                    \subseteq DOMAIN df_m.rows[1]
              /\ df_m.rows[1].cod = 7
              /\ df_m.rows[1].premio_kpi = 200
              /\ df_m.rows[1].premio_caixas = 0
              /\ df_m.rows[1].total_a_pagar = 200

\* C2: for any KPI-side and box-side lists, the merged table of a class has
\* exactly one row per worker code of either side; a worker of the KPI list
\* alone has box premium 0, a worker of the box list alone has KPI premium 0.
C2_OuterJoin ==
    pc = "merge_done" =>
        \A classe \in {"M", "J"} :
            LET rows == Merged(classe).rows
                kpi  == CodsOf(KpiSide(classe))
                cx   == CodsOf(CxSide(classe))
            IN  /\ {rows[i].cod : i \in 1..Len(rows)} = kpi \cup cx
                /\ \A k \in kpi \cup cx :
                      Cardinality({i \in 1..Len(rows) : rows[i].cod = k}) = 1
                /\ \A i \in 1..Len(rows) :
                      /\ rows[i].cod \notin cx =>
                            /\ "premio_caixas" \in DOMAIN rows[i]
                            /\ rows[i].premio_caixas = 0
                      /\ rows[i].cod \notin kpi =>
                            /\ "premio_kpi" \in DOMAIN rows[i]
                            /\ rows[i].premio_kpi = 0

\* A side that has no record for the worker.
Ausente == [nome |-> Null, cpf |-> Null]

\* A missing value is delivered as the empty text (line 117).
Entregue(v) == IF v = Null THEN "" ELSE v

\* C7: in every merged row the name is the KPI-side name when the worker's
\* KPI-side record has a name that is not null, and the box-side name
\* otherwise (the empty text when that is missing too); the CPF follows the
\* same rule on its own.  A row stands for one KPI-side record and one
\* box-side record of its worker code, or for the absence of either.
C7_IdentityPrefersKpi ==
    pc = "merge_done" =>
        \A classe \in {"M", "J"} : \A i \in 1..Len(Merged(classe).rows) :
            LET row == Merged(classe).rows[i]
                ks  == RecsOf(KpiSide(classe), row.cod)
                xs  == RecsOf(CxSide(classe), row.cod)
                ks1 == IF ks = {} THEN {Ausente} ELSE ks
                xs1 == IF xs = {} THEN {Ausente} ELSE xs
            IN  \E k \in ks1 : \E x \in xs1 :
                    /\ row.nome = Entregue(IF k.nome # Null THEN k.nome ELSE x.nome)
                    /\ row.cpf = Entregue(IF k.cpf # Null THEN k.cpf ELSE x.cpf)

\* Driver 7 with one record on each side, differing in name and CPF: the KPI
\* record has no name and has a CPF, so the row's name is the box side's and
\* its CPF the KPI side's.
C7_Witness ==
    /\ pc = "merge_done"
    /\ Len(m_kpi) = 1 /\ Len(m_cx) = 1
    /\ m_kpi[1].cod = 7 /\ m_cx[1].cod = 7
    /\ m_kpi[1].nome = Null /\ m_kpi[1].cpf = "123.456.789-00"
    /\ Len(df_m.rows) = 1
    /\ df_m.rows[1].nome = "ANA"
    /\ df_m.rows[1].cpf = "123.456.789-00"

(***************************************************************************)
(* The endpoints                                                           *)
(***************************************************************************)
\* x or y, on error messages (None is Null).
PyOr(a, b) == IF a # Null THEN a ELSE b

\* The error a fetch reports: its message, or None.
Err(f) == IF f \in erros THEN f ELSE Null

\* s.replace(".", "").replace("-", "") / str.replace(r'[.-]', '', regex=True)
SemPontuacao(s) ==
    CASE s = "123.456.789-00" -> "12345678900"
      [] s = "222.222.222-22" -> "22222222222"
      [] s = "333.333.333-33" -> "33333333333"
      [] s = "999.999.999-99" -> "99999999999"
      [] OTHER -> s

\* The rows a caller who is not admin keeps.
FiltrarCpf(rows, user) ==
    IF user.role # "admin"
    THEN Pick(rows, {i \in 1..Len(rows) :
                       SemPontuacao(rows[i].cpf) = SemPontuacao(user.username)}, 1)
    ELSE rows

\* _get_dados_completos, lines 44-49: the trips with one row per MAPA.
ViagensDedup(df) == IF df.none THEN None ELSE DF(DropDuplicates(df.rows, "MAPA"))

\* _get_dados_completos, line 58.
ErrorMessage ==
    PyOr(PyOr(PyOr(Err("viagens"), Err("cadastro")), Err("indicadores")), Err("caixas"))

\* processar_incentivos_sincrono, whose code is not part of these sources:
\* driver and helper records {cod, nome, cpf, total_premio}; what it does with
\* a table that is None is left open.
IncentivosOuts(dfViagens, dfCadastro) ==
    IF dfViagens.none \/ dfCadastro.none
    THEN {[raised |-> TRUE, m |-> <<>>, a |-> <<>>],
          [raised |-> FALSE, m |-> <<>>, a |-> <<>>]}
    ELSE {[raised |-> FALSE, m |-> <<>>, a |-> <<>>],
          [raised |-> FALSE, m |-> <<Rec(7, "ANA K", "123.456.789-00", 200)>>,
           a |-> <<>>],
          [raised |-> FALSE, m |-> <<Rec(8, "BIA", "333.333.333-33", 100)>>,
           a |-> <<Rec(5, Null, "222.222.222-22", 30)>>]}

Resposta(status, ms, as, error) ==
    [status |-> status, motoristas |-> ms, ajudantes |-> as, error |-> error]

\* GET /caixas/
LerRelatorioCaixas ==
    /\ pc = "idle"
    /\ resultado' =
         IF PyOr(PyOr(Err("viagens"), Err("cadastro")), Err("caixas")) = Null
         THEN ProcessarCaixasSincrono(df_viagens, df_cadastro, df_caixas, metas)
         ELSE [raised |-> FALSE, motoristas |-> <<>>, ajudantes |-> <<>>]
    /\ invoked' =
         IF PyOr(PyOr(Err("viagens"), Err("cadastro")), Err("caixas")) = Null
         THEN {"processar_caixas_sincrono"} ELSE {}
    /\ m_cx' = resultado'.motoristas
    /\ a_cx' = resultado'.ajudantes
    /\ response' =
         IF resultado'.raised THEN Resposta(500, <<>>, <<>>, Null)
         ELSE Resposta(200, FiltrarCpf(m_cx', current_user),
                       FiltrarCpf(a_cx', current_user),
                       PyOr(PyOr(Err("viagens"), Err("cadastro")), Err("caixas")))
    /\ endpoint' = "caixas"
    /\ pc' = "done"
    /\ UNCHANGED <<dias_antiguidade, metas_colaborador, valor,
                   df_viagens, df_cadastro, df_caixas, metas,
                   m_kpi, a_kpi, df_m, df_a, current_user, erros>>

NoFrame == [cols |-> {}, rows |-> <<>>]

\* What the two payment routes share, lines 136-151 and 185-198: the three
\* calls in order, a raise in one ending the try block.
Pipeline(kpi) ==
    /\ m_kpi' = kpi.m
    /\ a_kpi' = kpi.a
    /\ resultado' =
         IF kpi.raised
         THEN [raised |-> TRUE, motoristas |-> <<>>, ajudantes |-> <<>>]
         ELSE ProcessarCaixasSincrono(ViagensDedup(df_viagens), df_cadastro,
                                      df_caixas, metas)
    /\ m_cx' = resultado'.motoristas
    /\ a_cx' = resultado'.ajudantes
    /\ invoked' = {"processar_incentivos_sincrono"}
                  \cup (IF kpi.raised THEN {} ELSE {"processar_caixas_sincrono"})
                  \cup (IF resultado'.raised THEN {} ELSE {"_merge_resultados"})
    /\ \E dfs \in {IF resultado'.raised THEN <<NoFrame, NoFrame>>
                    ELSE MergeResultados(m_kpi', a_kpi', m_cx', a_cx')} :
          df_m' = dfs[1] /\ df_a' = dfs[2]

ErroInterno == "Erro interno no servidor."

\* GET /pagamento
LerRelatorioPagamento ==
    /\ pc = "idle"
    /\ \E kpi \in IncentivosOuts(ViagensDedup(df_viagens), df_cadastro) :
          IF ErrorMessage # Null
          THEN /\ invoked' = {}
               /\ response' = Resposta(200, <<>>, <<>>, ErrorMessage)
               /\ UNCHANGED <<m_kpi, a_kpi, m_cx, a_cx, df_m, df_a, resultado>>
          ELSE /\ Pipeline(kpi)
               /\ response' =
                    IF resultado'.raised
                    THEN Resposta(200, <<>>, <<>>, ErroInterno)
                    ELSE Resposta(200, FiltrarCpf(df_m'.rows, current_user),
                                  FiltrarCpf(df_a'.rows, current_user), Null)
    /\ endpoint' = "pagamento"
    /\ pc' = "done"
    /\ UNCHANGED <<dias_antiguidade, metas_colaborador, valor,
                   df_viagens, df_cadastro, df_caixas, metas,
                   current_user, erros>>

\* GET /pagamento/exportar: the two sheets are the response's rows.
ExportarRelatorioPagamento ==
    /\ pc = "idle"
    /\ \E kpi \in IncentivosOuts(ViagensDedup(df_viagens), df_cadastro) :
          /\ Pipeline(kpi)
          /\ response' =
               IF resultado'.raised
               THEN Resposta(500, <<>>, <<>>, "Erro ao gerar Excel")
               ELSE Resposta(200, df_m'.rows, df_a'.rows, Null)
    /\ endpoint' = "exportar"
    /\ pc' = "done"
    /\ UNCHANGED <<dias_antiguidade, metas_colaborador, valor,
                   df_viagens, df_cadastro, df_caixas, metas,
                   current_user, erros>>

\* ---- the world a request meets ----
Fetches == {"viagens", "cadastro", "indicadores", "caixas"}

Users == {[role |-> "admin", username |-> "admin"],
          [role |-> "user", username |-> "123.456.789-00"],
          [role |-> "user", username |-> "22222222222"]}

ViagemRowsPagamento ==
    [MAPA : {MapaInt(1), MapaInt(2)}, COD : {7, 8}, CODJ_1 : {5}, CODJ_2 : {0, 5}]

\* What a fetch returns: None with its error, the table otherwise.
Fetched(f, tables) == IF f \in erros THEN {None} ELSE tables

Init ==
    /\ pc = "idle"
    /\ erros \in SUBSET Fetches
    /\ current_user \in Users
    /\ df_viagens \in Fetched("viagens",
                              {DF(s) : s \in SeqsUpTo(ViagemRowsPagamento, MaxViagens)})
    /\ df_cadastro \in Fetched("cadastro", {DF(<<CadAna, CadBia>>)})
    /\ df_caixas \in Fetched("caixas",
          {DF(<<CxRow(MapaStr(1), 50), CxRow(MapaStr(2), 0)>>),
           DF(<<CxRow(MapaStr(1), 50), CxRow(MapaStr(1), 70), CxRow(MapaStr(2), 30)>>)})
    /\ metas = [motorista |-> MetasCheias, ajudante |-> MetasCheias]
    /\ endpoint = Unset /\ invoked = {} /\ response = Unset
    /\ m_kpi = <<>> /\ a_kpi = <<>> /\ m_cx = <<>> /\ a_cx = <<>>
    /\ df_m = Unset /\ df_a = Unset
    /\ resultado = Unset
    /\ dias_antiguidade = Unset /\ metas_colaborador = Unset /\ valor = Unset

Next ==
    \/ LerRelatorioCaixas
    \/ LerRelatorioPagamento
    \/ ExportarRelatorioPagamento

Spec == Init /\ [][Next]_vars

\* ---- what the claims about the endpoints speak of ----
\* The fetches an endpoint makes.
FetchesDe(e) == IF e = "caixas" THEN Fetches \ {"indicadores"} ELSE Fetches

\* C3: when a fetch of the endpoint reports an error, no aggregation function
\* is invoked and the caller gets empty driver and helper results with that
\* error message.
C3_FetchErrorSkipsAggregation ==
    (pc = "done" /\ erros \cap FetchesDe(endpoint) # {}) =>
        /\ invoked = {}
        /\ response.motoristas = <<>>
        /\ response.ajudantes = <<>>
        /\ response.error \in erros

\* C4: a caller who is not admin is delivered, by every endpoint, only rows
\* whose CPF without '.' and '-' is the caller's username without them.
C4_NonAdminSeesOwnRows ==
    (pc = "done" /\ current_user.role # "admin") =>
        \A rows \in {response.motoristas, response.ajudantes} :
            \A i \in 1..Len(rows) :
                SemPontuacao(rows[i].cpf) = SemPontuacao(current_user.username)

\* The trip identifiers of the feed that name the worker.
MapasDe(classe, c) ==
    {Str(df_viagens.rows[i].MAPA) :
        i \in {j \in 1..Len(df_viagens.rows) :
                 IF classe = "M" THEN df_viagens.rows[j].COD = c
                 ELSE \E n \in 1..Len(ColunasAjudantes) :
                          df_viagens.rows[j][ColunasAjudantes[n]] = c}}

\* The box count of a trip identifier.
CaixasDe(id) == CaixasDoMapa([MAPA |-> id], df_caixas)

RECURSIVE SumOver(_)
SumOver(S) ==
    IF S = {} THEN 0
    ELSE LET x == CHOOSE x \in S : TRUE IN CaixasDe(x) + SumOver(S \ {x})

\* C10: in the payment routes no trip identifier adds its box count to a
\* worker's total_caixas more than once, whatever rows the trip feed and the
\* box-count table repeat.
C10_NoDoubleCount ==
    (pc = "done" /\ endpoint \in {"pagamento", "exportar"}
     /\ "processar_caixas_sincrono" \in invoked) =>
        /\ \A i \in 1..Len(m_cx) :
              m_cx[i].total_caixas <= SumOver(MapasDe("M", m_cx[i].cod))
        /\ \A i \in 1..Len(a_cx) :
              a_cx[i].total_caixas <= SumOver(MapasDe("J", a_cx[i].cod))

====
